---- MODULE Spec2Model ----
(* Model of packages/next/next-server/server/image-optimizer.ts:           *)
(* the imageOptimizer request handler, its validation ladder, cache-key    *)
(* derivation, cache lookup and the fetch -> transform -> tee pipeline.    *)
(*                                                                         *)
(* Strings are sequences of tokens (a token is a piece of text that no     *)
(* other token sequence spells), so that string concatenation is sequence  *)
(* concatenation and parseInt reads a string character by character.       *)
(*                                                                         *)
(* Specifications: Spec, interleaved requests through the whole handler;   *)
(* SpecV, the validation ladder over every raw value; SpecK, the encoding  *)
(* of the cache key; SpecE, Spec with failing streams; SpecP, the handler  *)
(* across restarts of the server that change the policy.                   *)
EXTENDS Integers, Sequences, FiniteSets, TLC

VARIABLES domains, sizes, files, fetchCount, sharp, reqs, keyed

vars == <<domains, sizes, files, fetchCount, sharp, reqs, keyed>>

(***************************************************************************)
(* Bounds of the model.                                                    *)
(***************************************************************************)
MaxReq == 2        \* requests per behaviour of Spec
MaxLen == 3        \* longest raw w / q string of SpecV
NChunks == 2       \* chunks the transform emits per image
DigestLen == 3     \* bytes of a digest in SpecK (SHA-256 yields 32)

(***************************************************************************)
(* Program constants.                                                      *)
(***************************************************************************)
WEBP == <<"image/webp">>
NONE == <<>>                       \* accept.mediaType found no match: ''
MinQuality == 1
MaxQuality == 100

(***************************************************************************)
(* Query parameter values: undefined, one string, or an array (repeated).  *)
(***************************************************************************)
Undefined == [kind |-> "undefined", str |-> <<>>]
ArrayOf == [kind |-> "array", str |-> <<>>]
Str(s) == [kind |-> "string", str |-> s]

\* JavaScript !v for a query value: undefined and '' are falsy, arrays truthy
Falsy(v) == v.kind = "undefined" \/ (v.kind = "string" /\ v.str = <<>>)
IsArray(v) == v.kind = "array"

(***************************************************************************)
(* parseInt(string): optional sign, then the longest prefix of decimal     *)
(* digits; NaN when there is no digit.                                     *)
(***************************************************************************)
Digits == <<"0", "1", "2", "3", "4", "5", "6", "7", "8", "9">>
IsDigit(c) == \E d \in 1..10 : Digits[d] = c
DigitVal(c) == (CHOOSE d \in 1..10 : Digits[d] = c) - 1

RECURSIVE DigitPrefix(_, _, _)
\* [n |-> digits read, val |-> their value] reading s from position i
DigitPrefix(s, i, acc) ==
  IF i > Len(s) \/ ~IsDigit(s[i]) THEN acc
  ELSE DigitPrefix(s, i + 1, [n |-> acc.n + 1, val |-> acc.val * 10 + DigitVal(s[i])])

ParseInt(s) ==
  LET neg == Len(s) > 0 /\ s[1] = "-"
      start == IF neg THEN 2 ELSE 1
      p == DigitPrefix(s, start, [n |-> 0, val |-> 0])
  IN IF p.n = 0 THEN [nan |-> TRUE, val |-> 0]
     ELSE [nan |-> FALSE, val |-> IF neg THEN 0 - p.val ELSE p.val]

IsNaN(p) == p.nan

RECURSIVE NatString(_)
NatString(n) == IF n < 10 THEN <<Digits[n + 1]>>
                ELSE NatString(n \div 10) \o <<Digits[(n % 10) + 1]>>
\* `${n}` for an integer
NumString(n) == IF n < 0 THEN <<"-">> \o NatString(0 - n) ELSE NatString(n)

(***************************************************************************)
(* URL strings.  new URL(url) succeeds on "https://" host path...; new     *)
(* URL(url, base) resolves "//host/path" and "/path" against the base and  *)
(* throws when the base or the url is malformed.                           *)
(***************************************************************************)
Hostnames == {"good.com", "evil.com"}
Invalid == [ok |-> FALSE, hostname |-> "", href |-> <<>>]
Parsed(hostname, rest) ==
  [ok |-> TRUE, hostname |-> hostname,
   href |-> <<"https://", hostname>> \o (IF rest = <<>> THEN <<"/">> ELSE rest)]

\* new URL(url)
NewURL(url) ==
  IF Len(url) >= 2 /\ url[1] = "https://" /\ url[2] \in Hostnames
  THEN Parsed(url[2], SubSeq(url, 3, Len(url)))
  ELSE Invalid

\* new URL(url, `https://${host}`)
NewURLWithBase(url, host) ==
  IF host \notin Hostnames THEN Invalid
  ELSE IF url = <<>> THEN Parsed(host, <<>>)
  ELSE IF url[1] = "https://" THEN NewURL(url)
  ELSE IF url[1] = "//" THEN
    IF Len(url) >= 2 /\ url[2] \in Hostnames
    THEN Parsed(url[2], SubSeq(url, 3, Len(url)))
    ELSE Invalid
  ELSE Parsed(host, url)

Includes(arr, x) == \E k \in DOMAIN arr : arr[k] = x

(***************************************************************************)
(* The validation ladder of imageOptimizer.  Each block yields the text    *)
(* passed to res.end, or <<>> when the block falls through.                *)
(***************************************************************************)
\* lines 43-65: the URL the handler will fetch
AbsoluteUrl(url, host) ==
  IF NewURL(url.str).ok THEN NewURL(url.str) ELSE NewURLWithBase(url.str, host)

\* mutant: the domain allow-list never consulted
UrlMessage_AnyDomain(url, host, doms) ==
  IF Falsy(url) THEN <<"\"url\" parameter is required">>
  ELSE IF IsArray(url) THEN <<"\"url\" parameter cannot be an array">>
  ELSE IF NewURL(url.str).ok THEN <<>>
  ELSE IF ~NewURLWithBase(url.str, host).ok THEN <<"\"url\" parameter is invalid">>
  ELSE <<>>

\* lines 33-65
UrlMessage(url, host, doms) ==
  IF Falsy(url) THEN <<"\"url\" parameter is required">>
  ELSE IF IsArray(url) THEN <<"\"url\" parameter cannot be an array">>
  ELSE IF NewURL(url.str).ok THEN
    IF Len(doms) > 0 /\ ~Includes(doms, NewURL(url.str).hostname)
    THEN <<"\"url\" parameter is not allowed">>
    ELSE <<>>
  ELSE IF ~NewURLWithBase(url.str, host).ok THEN <<"\"url\" parameter is invalid">>
  ELSE <<>>

\* lines 67-85
PresenceMessage(w, q) ==
  IF Falsy(w) THEN <<"\"w\" parameter (width) is required">>
  ELSE IF IsArray(w) THEN <<"\"w\" parameter (width) cannot be an array">>
  ELSE IF Falsy(q) THEN <<"\"q\" parameter (quality) is required">>
  ELSE IF IsArray(q) THEN <<"\"q\" parameter (quality) cannot be an array">>
  ELSE <<>>

\* mutant: the allow-list never consulted
WidthMessage_NoAllowList(w, szs) ==
  LET width == ParseInt(w.str)
  IN IF width.val = 0 \/ IsNaN(width)
     THEN <<"\"w\" parameter (width) must be a number greater than 0">>
     ELSE <<>>

\* lines 87-99; !width holds of 0 and of NaN
WidthMessage(w, szs) ==
  LET width == ParseInt(w.str)
  IN IF width.val = 0 \/ IsNaN(width)
     THEN <<"\"w\" parameter (width) must be a number greater than 0">>
     ELSE IF Len(szs) > 0 /\ ~Includes(szs, width.val)
     THEN <<"\"w\" parameter (width) of ">> \o NumString(width.val) \o <<" is not allowed">>
     ELSE <<>>

\* mutant: the upper bound taken as exclusive
QualityMessage_Exclusive(q) ==
  LET quality == ParseInt(q.str)
  IN IF IsNaN(quality) \/ quality.val < MinQuality \/ quality.val >= MaxQuality
     THEN <<"\"q\" parameter (quality) must be a number between 1 and 100">>
     ELSE <<>>

\* lines 101-107
QualityMessage(q) ==
  LET quality == ParseInt(q.str)
  IN IF IsNaN(quality) \/ quality.val < MinQuality \/ quality.val > MaxQuality
     THEN <<"\"q\" parameter (quality) must be a number between 1 and 100">>
     ELSE <<>>

\* mutant: the width parsed and checked before q is looked at
ValidationMessage_WidthFirst(url, w, q, host, doms, szs) ==
  IF UrlMessage(url, host, doms) # <<>> THEN UrlMessage(url, host, doms)
  ELSE IF PresenceMessage(w, Str(<<"1">>)) # <<>> THEN PresenceMessage(w, Str(<<"1">>))
  ELSE IF WidthMessage(w, szs) # <<>> THEN WidthMessage(w, szs)
  ELSE IF PresenceMessage(w, q) # <<>> THEN PresenceMessage(w, q)
  ELSE QualityMessage(q)

\* lines 33-107 in the order the handler runs them
ValidationMessage(url, w, q, host, doms, szs) ==
  IF UrlMessage(url, host, doms) # <<>> THEN UrlMessage(url, host, doms)
  ELSE IF PresenceMessage(w, q) # <<>> THEN PresenceMessage(w, q)
  ELSE IF WidthMessage(w, szs) # <<>> THEN WidthMessage(w, szs)
  ELSE QualityMessage(q)

(***************************************************************************)
(* Content negotiation over MEDIA_TYPES = [WEBP].                          *)
(***************************************************************************)
MediaType(accept) == IF accept \in {"image/webp", "*/*"} THEN WEBP ELSE NONE

(***************************************************************************)
(* Cache key: sha256 over url, w, q, mediaType fed in that order.  The     *)
(* digest is taken as injective on the bytes it was fed.                   *)
(***************************************************************************)
HashInput(url, w, q, mediaType) == url.str \o w.str \o q.str \o mediaType
Digest(bytes) == bytes
CacheKey(r) == Digest(HashInput(r.url, r.w, r.q, MediaType(r.accept)))

(***************************************************************************)
(* The encoding of the key and the path of the cache file (lines 115-116). *)
(* hash.digest('base64') encodes the digest bytes in the standard base64   *)
(* alphabet with '=' padding; path.join joins its arguments with '/' and   *)
(* normalises the result, so that a '/' inside an argument separates       *)
(* segments and empty segments vanish.  A path is a sequence of segments.  *)
(***************************************************************************)
Base64Alphabet ==
  <<"A", "B", "C", "D", "E", "F", "G", "H", "I", "J", "K", "L", "M",
    "N", "O", "P", "Q", "R", "S", "T", "U", "V", "W", "X", "Y", "Z",
    "a", "b", "c", "d", "e", "f", "g", "h", "i", "j", "k", "l", "m",
    "n", "o", "p", "q", "r", "s", "t", "u", "v", "w", "x", "y", "z",
    "0", "1", "2", "3", "4", "5", "6", "7", "8", "9", "+", "/">>
Sextet(n) == Base64Alphabet[n + 1]

RECURSIVE Base64(_)
\* Buffer.toString('base64') of the bytes b
Base64(b) ==
  IF Len(b) = 0 THEN <<>>
  ELSE IF Len(b) = 1 THEN
    <<Sextet(b[1] \div 4), Sextet((b[1] % 4) * 16), "=", "=">>
  ELSE IF Len(b) = 2 THEN
    <<Sextet(b[1] \div 4), Sextet((b[1] % 4) * 16 + b[2] \div 16),
      Sextet((b[2] % 16) * 4), "=">>
  ELSE <<Sextet(b[1] \div 4), Sextet((b[1] % 4) * 16 + b[2] \div 16),
         Sextet((b[2] % 16) * 4 + b[3] \div 64), Sextet(b[3] % 64)>>
       \o Base64(SubSeq(b, 4, Len(b)))

RECURSIVE SplitPath(_, _)
\* the segments of the characters s, cur being the segment read so far
SplitPath(s, cur) ==
  IF s = <<>> THEN (IF cur = <<>> THEN <<>> ELSE <<cur>>)
  ELSE IF Head(s) = "/" THEN (IF cur = <<>> THEN <<>> ELSE <<cur>>) \o SplitPath(Tail(s), <<>>)
  ELSE SplitPath(Tail(s), Append(cur, Head(s)))

\* path.join(dir..., name) for a directory given by its segments
Join(dir, name) == dir \o SplitPath(name, <<>>)

\* join(distDir, 'cache', 'images')
CacheDir == <<<<"distDir">>, <<"cache">>, <<"images">>>>

\* lines 115-116 for a digest of the given bytes
KeyOf(bytes) ==
  [digest |-> bytes, cacheKey |-> Base64(bytes),
   cacheFile |-> Join(CacheDir, Base64(bytes))]
\* no key derived yet
NoKey == [digest |-> <<>>, cacheKey |-> <<>>, cacheFile |-> <<>>]

\* values the handler derives from a request record
Href(r) == AbsoluteUrl(r.url, r.host).href
Width(r) == ParseInt(r.w.str).val
Quality(r) == ParseInt(r.q.str).val

(***************************************************************************)
(* The transform output: the fetched source resized to width and, for      *)
(* WEBP, re-encoded at quality, emitted as NChunks chunks.                 *)
(***************************************************************************)
Chunk(r, k) ==
  [src |-> Href(r), width |-> Width(r),
   quality |-> IF MediaType(r.accept) = WEBP THEN Quality(r) ELSE 0,
   fmt |-> MediaType(r.accept), idx |-> k]
Output(r) == [k \in 1..NChunks |-> Chunk(r, k)]
\* what a file holds where nothing was written below a later write
Hole == [src |-> <<>>, width |-> 0, quality |-> 0, fmt |-> <<>>, idx |-> 0]

\* fs write of chunk c at offset off (1-based) of file content f
WriteAt(f, off, c) ==
  [k \in 1..(IF off > Len(f) THEN off ELSE Len(f)) |->
     IF k = off THEN c ELSE IF k <= Len(f) THEN f[k] ELSE Hole]

\* mutant: the existence check always reports a miss
FileExists_Never(fs, key) == FALSE

\* line 118: fileExists(cacheFile)
FileExists(fs, key) == key \in DOMAIN fs
\* mutant: the file opened with flags 'wx', an existing file left as it is
CreateWriteStream_Exclusive(fs, key) ==
  [k \in DOMAIN fs \cup {key} |-> IF k \in DOMAIN fs THEN fs[k] ELSE <<>>]

\* fs.createWriteStream(cacheFile): flags 'w' create or truncate
CreateWriteStream(fs, key) == [k \in DOMAIN fs \cup {key} |-> IF k = key THEN <<>> ELSE fs[k]]
CountFetch(fc, href) ==
  [h \in DOMAIN fc \cup {href} |-> IF h \in DOMAIN fc THEN fc[h] + (IF h = href THEN 1 ELSE 0) ELSE 1]

(***************************************************************************)
(* Inputs.                                                                 *)
(***************************************************************************)
Chars == {"0", "1", "-"}
RECURSIVE StringsUpTo(_)
StringsUpTo(n) ==
  IF n = 0 THEN {<<>>}
  ELSE StringsUpTo(n - 1) \cup {Append(s, c) : s \in StringsUpTo(n - 1), c \in Chars}

AbsGood == Str(<<"https://", "good.com", "/x">>)
AbsEvil == Str(<<"https://", "evil.com", "/x">>)
ProtoRel == Str(<<"//", "evil.com", "/x">>)
RelPath == Str(<<"/x">>)
Malformed == Str(<<"https://">>)

\* SpecV: one request, every raw value up to MaxLen
UrlsV == {Undefined, ArrayOf, Str(<<>>), AbsGood, AbsEvil, ProtoRel, RelPath, Malformed}
WidthsV == {Undefined, ArrayOf} \cup {Str(s) : s \in StringsUpTo(MaxLen - 1)}
QualitiesV == {Undefined, ArrayOf} \cup {Str(s) : s \in StringsUpTo(MaxLen)}
HostsV == {"good.com", "evil.com", ""}
AcceptsV == {"image/webp", "image/png"}

\* Spec: MaxReq interleaved requests over a few values
Urls == {RelPath}
Hosts == {"good.com", "evil.com"}
Widths == {Str(<<"1", "0">>), Str(<<"1">>)}
Qualities == {Str(<<"5">>), Str(<<"0", "5">>)}
Accepts == {"image/webp"}
Requests == [url : Urls, w : Widths, q : Qualities, host : Hosts, accept : Accepts]
\* one request per kind of rejection: each differs from Plain in one parameter
Plain == [url |-> RelPath, w |-> Str(<<"1", "0">>), q |-> Str(<<"5">>),
          host |-> "good.com", accept |-> "image/webp"]
BadRequests ==
  {[Plain EXCEPT !.url = Undefined], [Plain EXCEPT !.url = AbsEvil],
   [Plain EXCEPT !.w = ArrayOf], [Plain EXCEPT !.w = Str(<<"0">>)],
   [Plain EXCEPT !.q = Undefined], [Plain EXCEPT !.q = Str(<<"0">>)]}
\* SpecK: byte values a digest is made of
ByteValues == {0, 1, 63, 128, 255}
Digests == [1..DigestLen -> ByteValues]
Statuses == {200, 404}
\* a response with or without a body; the 404 of the model carries one
BodyChoices(status) == IF status = 200 THEN BOOLEAN ELSE {TRUE}

\* SpecP: requests that a policy may or may not allow
RequestsP ==
  [url : {AbsGood, AbsEvil}, w : {Str(<<"1", "0">>), Str(<<"1">>)},
   q : {Str(<<"5">>), Str(<<"0">>)}, host : {"good.com"}, accept : {"image/webp"}]

DomainPolicies == {<<>>, <<"good.com">>}
SizePolicies == {<<>>, <<10, 11>>}

(***************************************************************************)
(* State.  reqs is the sequence of requests in order of arrival; a record  *)
(* holds the request (url, w, q, host, accept) and the handler's progress. *)
(***************************************************************************)
\* the process starts with its configuration loaded and an empty cache
InitWith(DomainChoices, SizeChoices) ==
  /\ domains \in DomainChoices
  /\ sizes \in SizeChoices
  /\ files = <<>>
  /\ fetchCount = <<>>
  /\ sharp = 0
  /\ reqs = <<>>
  /\ keyed = NoKey

Init == InitWith({<<"good.com">>}, {<<>>})
InitV == InitWith(DomainPolicies, SizePolicies)

\* mutant: a rejection that does not return
AfterValidation_FallThrough(msg) == "lookup"

\* lines 33-107: pc after validation
AfterValidation(msg) == IF msg # <<>> THEN "done" ELSE "lookup"

\* lines 16-117: the handler up to the await of fileExists
Receive(url, w, q, host, accept) ==
  LET msg == ValidationMessage(url, w, q, host, domains, sizes)
  IN /\ reqs' = Append(reqs,
          [url |-> url, w |-> w, q |-> q, host |-> host, accept |-> accept,
           pc |-> AfterValidation(msg),
           statusCode |-> IF msg # <<>> THEN 400 ELSE 200,
           msg |-> msg, body |-> <<>>, pos |-> 0, hit |-> FALSE,
           fetchStatus |-> 0, fetchBody |-> FALSE, error |-> <<>>, finished |-> msg # <<>>,
           handle |-> 0, failure |-> ""])
     /\ UNCHANGED <<keyed, domains, sizes, files, fetchCount, sharp>>

Request ==
  /\ Len(reqs) < MaxReq
  /\ \E r \in Requests \cup BadRequests : Receive(r.url, r.w, r.q, r.host, r.accept)

RequestV ==
  /\ Len(reqs) < 1
  /\ \E url \in UrlsV, w \in WidthsV, q \in QualitiesV, host \in HostsV, accept \in AcceptsV :
       Receive(url, w, q, host, accept)

\* mutant: the module loaded on every miss, whatever the handle holds
LoadSharp_Unguarded(sh) == sh + 1

\* lines 123-127: sharp is 0 while the module-level variable is undefined,
\* else the ordinal of the require call whose result it holds
LoadSharp(sh) == IF sh = 0 THEN 1 ELSE sh

\* lines 118-128: the codec handle once fileExists has resolved
SharpAfterLookup(sh, hit) == IF hit THEN sh ELSE LoadSharp(sh)

\* mutant: the source fetched before the existence check is looked at
FetchAfterLookup_Eager(fc, href, hit) == CountFetch(fc, href)

\* lines 118-137: the fetches issued once fileExists has resolved
FetchAfterLookup(fc, href, hit) == IF hit THEN fc ELSE CountFetch(fc, href)

\* lines 118-137: fileExists resolves; hit pipes the file to res, miss loads
\* sharp, builds the transformer and issues the fetch
Lookup(i) ==
  /\ reqs[i].pc = "lookup"
  /\ LET hit == FileExists(files, CacheKey(reqs[i]))
     IN /\ reqs' = IF hit
                   THEN [reqs EXCEPT ![i].pc = "serving", ![i].hit = TRUE,
                                     ![i].finished = TRUE]
                   ELSE [reqs EXCEPT ![i].pc = "fetching", ![i].handle = LoadSharp(sharp)]
        /\ sharp' = SharpAfterLookup(sharp, hit)
        /\ fetchCount' = FetchAfterLookup(fetchCount, Href(reqs[i]), hit)
  /\ UNCHANGED <<keyed, domains, sizes, files>>

\* line 119: the read stream hands the next chunk of the file to res, or ends
ReadCached(i) ==
  /\ reqs[i].pc = "serving"
  /\ LET f == files[CacheKey(reqs[i])]
     IN IF reqs[i].pos < Len(f)
        THEN reqs' = [reqs EXCEPT ![i].body = Append(@, f[reqs[i].pos + 1]),
                                  ![i].pos = @ + 1]
        ELSE reqs' = [reqs EXCEPT ![i].pc = "done"]
  /\ UNCHANGED <<keyed, domains, sizes, files, fetchCount, sharp>>

\* fetchResponse.ok: a status in the range 200-299
Ok(status) == status >= 200 /\ status <= 299

\* lines 139-146: the message of the Error the handler throws, <<>> when it
\* throws none
FetchError(status, hasBody, href) ==
  IF ~Ok(status) THEN <<"Unexpected status ">> \o NumString(status) \o <<" from ">> \o href
  ELSE IF ~hasBody THEN <<"No body from ">> \o href
  ELSE <<>>

\* mutant: the write stream opened before the response is examined
FilesAfterFetch_OpenFirst(fs, key, err) == CreateWriteStream(fs, key)

\* lines 139-151: the cache files once the fetch has resolved
FilesAfterFetch(fs, key, err) == IF err = <<>> THEN CreateWriteStream(fs, key) ELSE fs

\* lines 137-153: the fetch resolves with a status and with or without a body
FetchResolve(i) ==
  /\ reqs[i].pc = "fetching"
  /\ \E status \in Statuses : \E hasBody \in BodyChoices(status) :
       LET err == FetchError(status, hasBody, Href(reqs[i]))
       IN /\ reqs' = [reqs EXCEPT ![i].pc = IF err = <<>> THEN "streaming" ELSE "failed",
                                  ![i].fetchStatus = status,
                                  ![i].fetchBody = hasBody,
                                  ![i].error = err,
                                  ![i].finished = (err = <<>>)]
          /\ files' = FilesAfterFetch(files, CacheKey(reqs[i]), err)
  /\ UNCHANGED <<keyed, domains, sizes, fetchCount, sharp>>

\* mutant: the cache file piped from the fetched body, not from the transform
CacheChunk_Untransformed(r, k) == [Chunk(r, k) EXCEPT !.width = 0, !.quality = 0, !.fmt = NONE]

\* line 151: what imageTransform hands to the write stream as its k-th chunk
CacheChunk(r, k) == Chunk(r, k)

\* lines 150-152: the transformer emits its next chunk to both pipes (to the
\* cache file alone once the response is gone); after the last chunk both
\* destinations are ended
TransformData(i) ==
  /\ reqs[i].pc = "streaming"
  /\ LET k == reqs[i].pos + 1
         key == CacheKey(reqs[i])
     IN /\ files' = [files EXCEPT ![key] = WriteAt(@, k, CacheChunk(reqs[i], k))]
        /\ reqs' = [reqs EXCEPT ![i].body = IF reqs[i].failure = "response" THEN @
                                             ELSE Append(@, Chunk(reqs[i], k)),
                                ![i].pos = k,
                                ![i].pc = IF k = NChunks THEN "done" ELSE "streaming"]
  /\ UNCHANGED <<keyed, domains, sizes, fetchCount, sharp>>

Next ==
  \/ Request
  \/ \E i \in DOMAIN reqs : Lookup(i)
  \/ \E i \in DOMAIN reqs : ReadCached(i)
  \/ \E i \in DOMAIN reqs : FetchResolve(i)
  \/ \E i \in DOMAIN reqs : TransformData(i)

Spec == Init /\ [][Next]_vars

(***************************************************************************)
(* Stream failures.  The handler attaches no 'error' listener to the       *)
(* transformer, to the write stream or to res, and has returned            *)
(* {finished: true} (line 153) before the first chunk flows.  An 'error'   *)
(* on the transformer or on the write stream is re-emitted by pipe() with  *)
(* no listener to take it: the request's streams stop where they are, and  *)
(* whether the other requests in flight survive depends on the process's   *)
(* handling of uncaught exceptions, which this file does not decide.  A    *)
(* response that goes away is unpiped and the cache file still receives    *)
(* the rest.                                                               *)
(***************************************************************************)
InFlight(r) == r.pc \in {"lookup", "serving", "fetching", "streaming"}

\* the streams of request i stop on failure what; with crash the process
\* dies and takes every request in flight with it
Abort(i, what, crash) ==
  reqs' = [j \in DOMAIN reqs |->
             IF j = i THEN [reqs[j] EXCEPT !.pc = "aborted", !.failure = what]
             ELSE IF crash /\ InFlight(reqs[j])
             THEN [reqs[j] EXCEPT !.pc = "aborted", !.failure = "crash"]
             ELSE reqs[j]]

\* line 150: the codec fails on the data it is fed
TransformError(i) ==
  /\ reqs[i].pc = "streaming"
  /\ \E crash \in BOOLEAN : Abort(i, "transform", crash)
  /\ UNCHANGED <<keyed, domains, sizes, files, fetchCount, sharp>>

\* line 151: a write to the cache file fails
CacheWriteError(i) ==
  /\ reqs[i].pc = "streaming"
  /\ \E crash \in BOOLEAN : Abort(i, "cache", crash)
  /\ UNCHANGED <<keyed, domains, sizes, files, fetchCount, sharp>>

\* line 152: the response goes away (the client disconnects)
ResponseError(i) ==
  /\ reqs[i].pc = "streaming" /\ reqs[i].failure = ""
  /\ reqs' = [reqs EXCEPT ![i].failure = "response"]
  /\ UNCHANGED <<keyed, domains, sizes, files, fetchCount, sharp>>

\* the handler with its streams failing
NextE ==
  \/ Next
  \/ \E i \in DOMAIN reqs : TransformError(i)
  \/ \E i \in DOMAIN reqs : CacheWriteError(i)
  \/ \E i \in DOMAIN reqs : ResponseError(i)

SpecE == Init /\ [][NextE]_vars

(***************************************************************************)
(* A change of policy.  nextConfig is fixed for the life of the server     *)
(* process (line 23 reads it from the server on every request); the cache  *)
(* directory is on disk and outlives the process.  A restart with another  *)
(* configuration brings new images.domains and images.sizes and an unset   *)
(* codec handle, and finds the cache files as they were left.              *)
(***************************************************************************)
Restart(doms, szs) ==
  /\ \A i \in DOMAIN reqs : ~InFlight(reqs[i])
  /\ <<doms, szs>> # <<domains, sizes>>
  /\ domains' = doms
  /\ sizes' = szs
  /\ sharp' = 0
  /\ UNCHANGED <<keyed, files, fetchCount, reqs>>

RequestP ==
  /\ Len(reqs) < MaxReq
  /\ \E r \in RequestsP : Receive(r.url, r.w, r.q, r.host, r.accept)

\* the handler across restarts of the server, starting without restrictions
NextP ==
  \/ RequestP
  \/ \E i \in DOMAIN reqs : Lookup(i)
  \/ \E i \in DOMAIN reqs : ReadCached(i)
  \/ \E i \in DOMAIN reqs : FetchResolve(i)
  \/ \E i \in DOMAIN reqs : TransformData(i)
  \/ \E doms \in DomainPolicies : \E szs \in SizePolicies : Restart(doms, szs)

InitP == InitWith({<<>>}, {<<>>})
SpecP == InitP /\ [][NextP]_vars

\* lines 109-116: the digest of what was fed to the hash is encoded and joined
\* to the cache directory.  Which bytes SHA-256 yields for an input is not
\* computed: the digest ranges over the byte strings.
DeriveKey ==
  /\ \E bytes \in Digests : keyed' = KeyOf(bytes)
  /\ UNCHANGED <<domains, sizes, files, fetchCount, sharp, reqs>>

\* the key derivation alone, over the digests
NextK == DeriveKey
SpecK == Init /\ [][NextK]_vars

\* the validation ladder alone, over every raw value
NextV == RequestV
SpecV == InitV /\ [][NextV]_vars

(***************************************************************************)
(* Properties.                                                             *)
(***************************************************************************)
Rejected(r) == r.msg # <<>>
Validated(r) == r.msg = <<>>
IsString(v) == v.kind = "string" /\ v.str # <<>>
Resolved(r) == AbsoluteUrl(r.url, r.host)

MsgUrlRequired == <<"\"url\" parameter is required">>
MsgUrlArray == <<"\"url\" parameter cannot be an array">>
MsgUrlInvalid == <<"\"url\" parameter is invalid">>
MsgUrlNotAllowed == <<"\"url\" parameter is not allowed">>
MsgWRequired == <<"\"w\" parameter (width) is required">>
MsgWArray == <<"\"w\" parameter (width) cannot be an array">>
MsgWNumber == <<"\"w\" parameter (width) must be a number greater than 0">>
MsgWNotAllowed(n) == <<"\"w\" parameter (width) of ">> \o NumString(n) \o <<" is not allowed">>
MsgQRequired == <<"\"q\" parameter (quality) is required">>
MsgQArray == <<"\"q\" parameter (quality) cannot be an array">>
MsgQNumber == <<"\"q\" parameter (quality) must be a number between 1 and 100">>

\* C1 (as claimed): with a non-empty domain allow-list, every request whose
\* url resolves, as an absolute URL or against https://{Host}, to a hostname
\* outside the list is rejected with status 400 and never reaches the cache
\* lookup or the upstream fetch.  (The claim also fixes the text as '"url"
\* parameter is not allowed'; the rejection itself is what fails.)
C1_DisallowedHostRejected ==
  \A i \in DOMAIN reqs :
    LET r == reqs[i]
    IN (Len(domains) > 0 /\ IsString(r.url) /\ Resolved(r).ok
        /\ ~Includes(domains, Resolved(r).hostname))
       => (r.statusCode = 400 /\ r.pc = "done" /\ Rejected(r))

(***************************************************************************)
(* The eleven checks of the handler, each on its own: whether it fails on  *)
(* request r and the text it ends the response with.  Listed in the order  *)
(* url presence, url arity, url parse, domain allow-list, w presence, w    *)
(* arity, w numeric, w allow-list, q presence, q arity, q numeric/bounds.  *)
(***************************************************************************)
Check(r, k) ==
  CASE k = 1 -> [fails |-> Falsy(r.url), msg |-> MsgUrlRequired]
    [] k = 2 -> [fails |-> IsArray(r.url), msg |-> MsgUrlArray]
    [] k = 3 -> [fails |-> ~Resolved(r).ok, msg |-> MsgUrlInvalid]
    [] k = 4 -> [fails |-> NewURL(r.url.str).ok /\ Len(domains) > 0
                           /\ ~Includes(domains, NewURL(r.url.str).hostname),
                 msg |-> MsgUrlNotAllowed]
    [] k = 5 -> [fails |-> Falsy(r.w), msg |-> MsgWRequired]
    [] k = 6 -> [fails |-> IsArray(r.w), msg |-> MsgWArray]
    [] k = 7 -> LET width == ParseInt(r.w.str)
                IN [fails |-> width.nan \/ width.val = 0, msg |-> MsgWNumber]
    [] k = 8 -> LET width == ParseInt(r.w.str)
                IN [fails |-> ~width.nan /\ width.val # 0 /\ Len(sizes) > 0
                              /\ ~Includes(sizes, width.val),
                    msg |-> MsgWNotAllowed(width.val)]
    [] k = 9 -> [fails |-> Falsy(r.q), msg |-> MsgQRequired]
    [] k = 10 -> [fails |-> IsArray(r.q), msg |-> MsgQArray]
    [] k = 11 -> LET quality == ParseInt(r.q.str)
                 IN [fails |-> quality.nan \/ quality.val < 1 \/ quality.val > 100,
                     msg |-> MsgQNumber]
CheckIds == 1..11

RECURSIVE FirstFailingFrom(_, _, _)
FirstFailingFrom(r, order, k) ==
  IF k > Len(order) THEN <<>>
  ELSE LET c == Check(r, order[k])
       IN IF c.fails THEN c.msg ELSE FirstFailingFrom(r, order, k + 1)

\* the text of the first check of order that fails on r, <<>> when none does
FirstFailing(r, order) == FirstFailingFrom(r, order, 1)

ClaimedOrder == <<1, 2, 3, 4, 5, 6, 7, 8, 9, 10, 11>>
HandlerOrder == <<1, 2, 3, 4, 5, 6, 9, 10, 7, 8, 11>>

FailsValidation(r) == \E k \in CheckIds : Check(r, k).fails

\* C2: the only step that involves a request failing validation is its
\* arrival: that step gives it status 400 and the text of a check that fails
\* on it, finishes it at once with no image body, no lookup and no fetch, and
\* changes neither the cache files nor the fetch count nor the codec handle;
\* no later step of the handler changes the request.
C2_RejectionHasNoEffect ==
  [][\A i \in DOMAIN reqs' :
       ((i \notin DOMAIN reqs \/ reqs'[i] # reqs[i]) /\ FailsValidation(reqs'[i])) =>
         /\ i \notin DOMAIN reqs
         /\ reqs'[i].statusCode = 400
         /\ \E k \in CheckIds :
              Check(reqs'[i], k).fails /\ reqs'[i].msg = Check(reqs'[i], k).msg
         /\ reqs'[i].pc = "done" /\ reqs'[i].finished
         /\ reqs'[i].body = <<>> /\ ~reqs'[i].hit /\ reqs'[i].fetchStatus = 0
         /\ reqs'[i].error = <<>>
         /\ files' = files /\ fetchCount' = fetchCount /\ sharp' = sharp]_vars

\* a rejected request has arrived while the cache holds a file and a fetch
\* has been counted
C2_Witness ==
  \E i \in DOMAIN reqs :
    /\ FailsValidation(reqs[i]) /\ reqs[i].statusCode = 400
    /\ i > 1 /\ DOMAIN files # {} /\ DOMAIN fetchCount # {}

\* C3 (as claimed): the text reported is that of the first failing check in
\* the order url presence, url arity, url parse, domain allow-list, w
\* presence, w arity, w numeric, w allow-list, q presence, q arity, q numeric.
C3_ClaimedOrder ==
  \A i \in DOMAIN reqs : reqs[i].msg = FirstFailing(reqs[i], ClaimedOrder)

\* C3 (amended): the text reported is that of the first failing check in the
\* order url presence, url arity, url parse, domain allow-list, w presence,
\* w arity, q presence, q arity, w numeric, w allow-list, q numeric; the
\* status is 400 exactly when some check fails.
C3_HandlerOrder ==
  \A i \in DOMAIN reqs :
    /\ reqs[i].msg = FirstFailing(reqs[i], HandlerOrder)
    /\ reqs[i].statusCode = (IF FailsValidation(reqs[i]) THEN 400 ELSE 200)

\* an unparsable w together with a missing q is answered with the q text
C3_Witness ==
  \E i \in DOMAIN reqs :
    /\ IsString(reqs[i].w) /\ ParseInt(reqs[i].w.str).nan
    /\ reqs[i].q = Undefined
    /\ reqs[i].msg = MsgQRequired

\* C4 (as claimed): every request that passes validation has an integer
\* width >= 1; a w that parses to zero, a negative integer or no number is
\* answered 400 with the must-be-a-number-greater-than-0 text, whatever the
\* width allow-list.
C4_ValidatedWidthPositive ==
  \A i \in DOMAIN reqs :
    LET r == reqs[i]
        width == ParseInt(r.w.str)
    IN /\ Validated(r) => (~width.nan /\ width.val >= 1)
       /\ (IsString(r.w) /\ (width.nan \/ width.val < 1)
           /\ FirstFailing(r, <<1, 2, 3, 4, 9, 10, 11>>) = <<>>)
          => (r.statusCode = 400 /\ r.msg = MsgWNumber)

\* C5: for a request whose url and w pass and whose q is a single value, q
\* parsing to an integer in 1..100 is accepted and proceeds to the cache
\* lookup; any other q is answered 400 with the quality-bounds text.  0 and
\* 101 are rejected, 1 and 100 accepted.
C5_QualityBounds ==
  \A i \in DOMAIN reqs :
    LET r == reqs[i]
        quality == ParseInt(r.q.str)
    IN FirstFailing(r, <<1, 2, 3, 4, 5, 6, 7, 8, 9, 10>>) = <<>> =>
         /\ (~quality.nan /\ quality.val >= 1 /\ quality.val <= 100)
              => (Validated(r) /\ r.statusCode = 200 /\ r.pc = "lookup")
         /\ (quality.nan \/ quality.val < 1 \/ quality.val > 100)
              => (r.statusCode = 400 /\ r.msg = MsgQNumber /\ r.pc = "done")
         /\ r.q.str \in {<<"0">>, <<"1", "0", "1">>} => r.msg = MsgQNumber
         /\ r.q.str \in {<<"1">>, <<"1", "0", "0">>} => r.pc = "lookup"

\* q = 100 was accepted
C5_Witness ==
  \E i \in DOMAIN reqs :
    reqs[i].q.str = <<"1", "0", "0">> /\ reqs[i].pc = "lookup" /\ Validated(reqs[i])

\* C6: for a request whose url passes and whose w and q are present single
\* values: with a non-empty width allow-list the request gets past width
\* validation only if its parsed width is in the list, and a width >= 1
\* outside the list is answered 400 with the not-allowed text naming it; with
\* an empty list no request is answered with a not-allowed text.
C6_WidthAllowList ==
  \A i \in DOMAIN reqs :
    LET r == reqs[i]
        width == ParseInt(r.w.str)
    IN FirstFailing(r, <<1, 2, 3, 4, 5, 6, 9, 10>>) = <<>> =>
         /\ (Len(sizes) > 0 /\ r.msg \in {<<>>, MsgQNumber})
              => Includes(sizes, width.val)
         /\ (Len(sizes) > 0 /\ ~width.nan /\ width.val >= 1
             /\ ~Includes(sizes, width.val))
              => (r.statusCode = 400 /\ r.msg = MsgWNotAllowed(width.val)
                  /\ r.pc = "done")
         /\ Len(sizes) = 0 => (width.nan \/ r.msg # MsgWNotAllowed(width.val))

\* width 1 was refused by the allow-list <<10, 11>>
C6_Witness ==
  /\ Len(sizes) > 0
  /\ \E i \in DOMAIN reqs :
       reqs[i].w.str = <<"1">> /\ reqs[i].msg = MsgWNotAllowed(1) /\ reqs[i].pc = "done"

SameTuple(a, b) ==
  a.url = b.url /\ a.w = b.w /\ a.q = b.q /\ MediaType(a.accept) = MediaType(b.accept)
\* r missed, fetched, and its transform output was written to the end
CompletedMiss(r) == Validated(r) /\ r.pc = "done" /\ ~r.hit /\ r.pos = NChunks
Contains(seq, sub) ==
  \E k \in 0..(Len(seq) - Len(sub)) : SubSeq(seq, k + 1, k + Len(sub)) = sub

\* C7: once a request has completed successfully, the cache lookup of every
\* request with the same (url, w, q, negotiated format) is a hit: it is served
\* from the cache file and the upstream fetch count does not move.
C7_NoRefetch ==
  [][\A i \in DOMAIN reqs :
       (/\ reqs[i].pc = "lookup" /\ reqs'[i].pc # "lookup"
        /\ \E j \in DOMAIN reqs : CompletedMiss(reqs[j]) /\ SameTuple(reqs[j], reqs[i]))
       => (/\ reqs'[i].pc = "serving" /\ reqs'[i].hit
           /\ fetchCount' = fetchCount /\ files' = files)]_vars

\* a second identical request was served the first one's output from the
\* cache, with one fetch counted
C7_Witness ==
  \E i, j \in DOMAIN reqs :
    /\ i < j /\ SameTuple(reqs[i], reqs[j]) /\ Href(reqs[i]) = Href(reqs[j])
    /\ CompletedMiss(reqs[i])
    /\ reqs[j].hit /\ reqs[j].pc = "done" /\ reqs[j].body = Output(reqs[i])
    /\ fetchCount[Href(reqs[i])] = 1

\* C8 (as claimed): two validated requests have the same cache key exactly
\* when they agree on (url, w, q, negotiated format), and no request is served
\* bytes resized to another width or encoded at another quality than its own.
C8_KeysInjective ==
  /\ \A i, j \in DOMAIN reqs :
       (Validated(reqs[i]) /\ Validated(reqs[j]))
       => (CacheKey(reqs[i]) = CacheKey(reqs[j]) <=> SameTuple(reqs[i], reqs[j]))
  /\ \A i \in DOMAIN reqs : \A k \in DOMAIN reqs[i].body :
       /\ reqs[i].body[k].width = Width(reqs[i])
       /\ reqs[i].body[k].quality = Quality(reqs[i])

\* C9 (as claimed): two validated requests with the same relative url, w, q
\* and negotiated format whose Host headers resolve the url to different
\* absolute URLs have different cache keys, and neither is served bytes
\* fetched from the other's URL.
C9_HostsDistinguished ==
  /\ \A i, j \in DOMAIN reqs :
       (/\ Validated(reqs[i]) /\ Validated(reqs[j])
        /\ SameTuple(reqs[i], reqs[j]) /\ Href(reqs[i]) # Href(reqs[j]))
       => CacheKey(reqs[i]) # CacheKey(reqs[j])
  /\ \A i \in DOMAIN reqs : \A k \in DOMAIN reqs[i].body :
       reqs[i].body[k].src = Href(reqs[i])

\* C10 (as claimed): a request whose fetch came back with a non-success
\* status or without a body has failed with an error that names the status
\* and the source URL, and was not reported finished.
C10_ErrorNamesStatusAndUrl ==
  \A i \in DOMAIN reqs :
    LET r == reqs[i]
    IN (r.fetchStatus # 0 /\ (~Ok(r.fetchStatus) \/ ~r.fetchBody))
       => (/\ r.pc = "failed" /\ ~r.finished
           /\ Contains(r.error, NumString(r.fetchStatus))
           /\ Contains(r.error, Href(r)))

\* C10 (amended): when the fetch comes back with a non-success status or
\* without a body, the request fails with an error that names the source URL
\* and, for a non-success status, the status; the step leaves the cache files
\* and the fetch count as they were, and the handler never acts on the
\* request again.
C10_FetchFailure ==
  [][\A i \in DOMAIN reqs :
       /\ (/\ reqs[i].pc = "fetching" /\ reqs'[i].pc # "fetching"
           /\ (~Ok(reqs'[i].fetchStatus) \/ ~reqs'[i].fetchBody))
          => (/\ reqs'[i].pc = "failed" /\ ~reqs'[i].finished
              /\ Contains(reqs'[i].error, Href(reqs[i]))
              /\ ~Ok(reqs'[i].fetchStatus)
                   => Contains(reqs'[i].error, NumString(reqs'[i].fetchStatus))
              /\ reqs'[i].body = <<>>
              /\ files' = files /\ fetchCount' = fetchCount)
       /\ reqs[i].pc = "failed" => reqs'[i] = reqs[i]]_vars

\* a request failed on a 404 and no file exists under its key
C10_Witness ==
  \E i \in DOMAIN reqs :
    /\ reqs[i].pc = "failed" /\ reqs[i].fetchStatus = 404
    /\ reqs[i].error = <<"Unexpected status ", "4", "0", "4", " from ", "https://", reqs[i].host, "/x">>
    /\ ~FileExists(files, CacheKey(reqs[i]))

Terminal(r) == r.pc \in {"done", "failed"}
\* some step of the handler or of its streams is still to come for request i
Pending(i) == InFlight(reqs[i])

\* C11 (as claimed): every invocation that has come to rest, be it a
\* rejection, a cache hit, a miss with a successful fetch or a miss whose fetch
\* returned a non-success status or no body, is in DONE or FAILED and has
\* returned {finished: true} to the router; an invocation not at rest still
\* has a step to take.
C11_EveryPathSignalsFinished ==
  \A i \in DOMAIN reqs :
    /\ Terminal(reqs[i]) \/ Pending(i)
    /\ Terminal(reqs[i]) => reqs[i].finished

\* C12 (as claimed): the cache key holds no path separator, and the cache
\* file is a direct child of <distDir>/cache/images/ named by the key.
C12_KeyPathSafe ==
  keyed # NoKey =>
    /\ \A k \in DOMAIN keyed.cacheKey : keyed.cacheKey[k] # "/"
    /\ keyed.cacheFile = Append(CacheDir, keyed.cacheKey)

\* C13: in every step, for every request: while its existence check is
\* outstanding it has set up no codec, issued no fetch and written nothing;
\* the codec handle, the fetch count and the cache files change only in steps
\* of a request whose check reported a miss (the fetch count by exactly one
\* fetch of that request's URL, in the step that leaves the check); a check
\* that finds the file reports a hit and changes none of them; a request that
\* hit only ever copies chunks of the cache file to its response; and a
\* request past its check never returns to the check or to the fetch.
C13_LookupFirst ==
  [][/\ fetchCount' # fetchCount =>
          \E i \in DOMAIN reqs :
            /\ reqs[i].pc = "lookup" /\ reqs'[i].pc = "fetching"
            /\ ~FileExists(files, CacheKey(reqs[i]))
            /\ fetchCount' = CountFetch(fetchCount, Href(reqs[i]))
     /\ sharp' # sharp =>
          \E i \in DOMAIN reqs :
            /\ reqs[i].pc = "lookup" /\ reqs'[i].pc = "fetching"
            /\ ~FileExists(files, CacheKey(reqs[i]))
     /\ files' # files =>
          \E i \in DOMAIN reqs :
            /\ reqs[i].pc \in {"fetching", "streaming"} /\ ~reqs[i].hit
            /\ reqs'[i] # reqs[i]
            /\ \A key \in DOMAIN files \ {CacheKey(reqs[i])} :
                 key \in DOMAIN files' /\ files'[key] = files[key]
     /\ \A i \in DOMAIN reqs :
          /\ reqs[i].pc = "lookup" =>
               /\ reqs[i].handle = 0 /\ reqs[i].fetchStatus = 0
               /\ reqs[i].body = <<>> /\ reqs[i].pos = 0
          /\ (reqs[i].pc = "lookup" /\ reqs'[i].pc # "lookup"
              /\ FileExists(files, CacheKey(reqs[i]))) =>
               /\ reqs'[i].pc = "serving" /\ reqs'[i].hit
               /\ files' = files /\ fetchCount' = fetchCount /\ sharp' = sharp
          /\ reqs[i].hit =>
               /\ reqs'[i].hit /\ reqs'[i].pc \in {"serving", "done"}
               /\ reqs'[i].handle = 0 /\ reqs'[i].fetchStatus = 0
               /\ reqs'[i] # reqs[i] =>
                    /\ files' = files /\ fetchCount' = fetchCount /\ sharp' = sharp
                    /\ reqs'[i].body # reqs[i].body =>
                         reqs'[i].body =
                           Append(reqs[i].body,
                                  files[CacheKey(reqs[i])][Len(reqs[i].body) + 1])
          /\ reqs[i].pc # "lookup" =>
               /\ reqs'[i].pc # "lookup"
               /\ reqs'[i].pc = "fetching" => reqs[i].pc = "fetching"]_vars

\* one request missed, fetched once and completed; another then hit and was
\* served the whole file with no codec set up for it and no fetch counted
C13_Witness ==
  \E i, j \in DOMAIN reqs :
    /\ CompletedMiss(reqs[j]) /\ reqs[j].handle = 1
    /\ reqs[i].hit /\ reqs[i].pc = "done" /\ reqs[i].handle = 0
    /\ reqs[i].body = files[CacheKey(reqs[i])] /\ Len(reqs[i].body) = NChunks
    /\ DOMAIN fetchCount = {Href(reqs[j])} /\ fetchCount[Href(reqs[j])] = 1

\* r got an ok response with a body and opened the cache file for writing
Opened(r) == r.fetchStatus # 0 /\ r.error = <<>>
\* no other request has opened the cache file of request i for writing
SoleWriter(i) ==
  \A j \in DOMAIN reqs \ {i} :
    CacheKey(reqs[j]) = CacheKey(reqs[i]) => ~Opened(reqs[j])

\* C14 (as claimed): every chunk the transform of a miss emits is the next
\* chunk of its one output and goes to the response, and in the step that
\* completes the transform the cache entry's content equals the response
\* body.
C14_EntryEqualsBody ==
  [][\A i \in DOMAIN reqs :
       (reqs[i].pc = "streaming" /\ reqs'[i] # reqs[i]) =>
         /\ reqs'[i].body = SubSeq(Output(reqs[i]), 1, Len(reqs[i].body) + 1)
         /\ reqs'[i].pc = "done" => files'[CacheKey(reqs[i])] = reqs'[i].body]_vars

\* C14 (amended): every chunk the transform of a miss emits is the next chunk
\* of its one output and goes, in the same step, to the response and to the
\* cache file at the same position, with no further fetch; in the step that
\* completes the transform of a request that is the only one to have opened
\* its cache file for writing, the cache entry's content equals the response
\* body, which is the whole output.
C14_TeeSameBytes ==
  [][\A i \in DOMAIN reqs :
       (reqs[i].pc = "streaming" /\ reqs'[i] # reqs[i]) =>
         LET k == Len(reqs[i].body) + 1
             key == CacheKey(reqs[i])
         IN /\ reqs'[i].body = Append(reqs[i].body, Output(reqs[i])[k])
            /\ Len(files'[key]) >= k /\ files'[key][k] = Output(reqs[i])[k]
            /\ fetchCount' = fetchCount
            /\ (reqs'[i].pc = "done" /\ SoleWriter(i)) =>
                 /\ files'[key] = reqs'[i].body
                 /\ reqs'[i].body = Output(reqs[i])]_vars

\* a miss completed as the only writer of its key, having fetched once: the
\* cache file and the response hold the same NChunks chunks
C14_Witness ==
  \E i \in DOMAIN reqs :
    /\ CompletedMiss(reqs[i]) /\ SoleWriter(i)
    /\ files[CacheKey(reqs[i])] = reqs[i].body /\ Len(reqs[i].body) = NChunks
    /\ fetchCount[Href(reqs[i])] = 1

\* C15 (as claimed): a request whose transform errored or one of whose sinks
\* failed mid-stream is in FAILED with an error for the caller, and has not
\* been reported finished.
C15_StreamFailureReported ==
  \A i \in DOMAIN reqs :
    reqs[i].failure \in {"transform", "cache", "response"} =>
      /\ reqs[i].pc = "failed" /\ reqs[i].error # <<>>
      /\ ~reqs[i].finished

\* C16 (as claimed): every cache file the existence check can find holds the
\* complete output of the transform of a request with that key, and every
\* request served from the cache was served such a complete output.
C16_EntryIsCompleteOutput ==
  /\ \A key \in DOMAIN files :
       \E j \in DOMAIN reqs :
         /\ Validated(reqs[j]) /\ CacheKey(reqs[j]) = key
         /\ files[key] = Output(reqs[j])
  /\ \A i \in DOMAIN reqs :
       (reqs[i].hit /\ reqs[i].pc = "done") =>
         \E j \in DOMAIN reqs :
           /\ Validated(reqs[j]) /\ CacheKey(reqs[j]) = CacheKey(reqs[i])
           /\ reqs[i].body = Output(reqs[j])

\* C17 (as claimed): once a cache file exists under a key, no step deletes
\* it, no request opens it for writing (truncating it), and its content is
\* changed by no request but the one that created it.
C17_WriteOnce ==
  [][/\ DOMAIN files \subseteq DOMAIN files'
     /\ \A i \in DOMAIN reqs :
          (reqs[i].pc = "fetching" /\ Opened(reqs'[i])) =>
            CacheKey(reqs[i]) \notin DOMAIN files
     /\ \A key \in DOMAIN files :
          files'[key] # files[key] =>
            \E i \in DOMAIN reqs :
              /\ CacheKey(reqs[i]) = key /\ reqs[i].pc = "streaming"
              /\ reqs'[i] # reqs[i] /\ SoleWriter(i)]_vars

\* C17 (amended): no step deletes a cache file; a request whose existence
\* check finds the file is a hit; and a cache file is opened for writing
\* (created or truncated) or changed only by a step of a request that is not
\* a hit and is past its check, that is, one whose check ran while the file
\* did not exist: such a request still opens, truncates and writes the file
\* when another request has created it in the meantime.
C17_WrittenByMissesOnly ==
  [][/\ DOMAIN files \subseteq DOMAIN files'
     /\ \A i \in DOMAIN reqs :
          /\ (reqs[i].pc = "lookup" /\ reqs'[i].pc # "lookup"
              /\ CacheKey(reqs[i]) \in DOMAIN files) =>
               (reqs'[i].hit /\ reqs'[i].pc = "serving" /\ files' = files)
          /\ (reqs[i].pc = "lookup" /\ reqs'[i].pc = "fetching") =>
               CacheKey(reqs[i]) \notin DOMAIN files
          /\ reqs[i].hit => (reqs'[i].hit /\ ~Opened(reqs'[i]))
     /\ \A key \in DOMAIN files' :
          (key \notin DOMAIN files \/ files'[key] # files[key]) =>
            \E i \in DOMAIN reqs :
              /\ CacheKey(reqs[i]) = key /\ ~reqs[i].hit
              /\ reqs[i].pc \in {"fetching", "streaming"}
              /\ reqs'[i] # reqs[i]
              /\ \A k \in DOMAIN files \ {key} : files'[k] = files[k]]_vars

\* two requests observed a miss for the same key; the second opened the file
\* after the first had written a chunk to it, and the file is empty again
C17_Witness ==
  \E i, j \in DOMAIN reqs :
    /\ i # j /\ CacheKey(reqs[i]) = CacheKey(reqs[j])
    /\ reqs[i].pc = "streaming" /\ reqs[i].pos >= 1
    /\ reqs[j].pc = "streaming" /\ reqs[j].pos = 0
    /\ files[CacheKey(reqs[i])] = <<>>

\* C18: nothing makes a request yield to another request of the same key.  In
\* every step: a request whose existence check finds no file goes on to fetch
\* its URL, whoever else is fetching or transforming for that key; a request
\* whose fetch succeeded opens the cache file and leaves it empty, whatever
\* another writer has put there; and a request that emits a chunk puts it at
\* its own position in the file, over whatever is there.  (That two such
\* requests run to completion and the later writer's bytes persist is the
\* state C18_Witness describes.)
C18_NoMutualExclusion ==
  [][\A i \in DOMAIN reqs :
       LET key == CacheKey(reqs[i])
       IN /\ (reqs[i].pc = "lookup" /\ reqs'[i] # reqs[i] /\ key \notin DOMAIN files) =>
               /\ reqs'[i].pc = "fetching"
               /\ fetchCount' = CountFetch(fetchCount, Href(reqs[i]))
          /\ (reqs[i].pc = "fetching" /\ Opened(reqs'[i])) =>
               /\ reqs'[i].pc = "streaming"
               /\ key \in DOMAIN files' /\ files'[key] = <<>>
          /\ (reqs[i].pc = "streaming" /\ reqs'[i] # reqs[i]) =>
               files'[key][reqs[i].pos + 1] = Output(reqs[i])[reqs[i].pos + 1]]_vars

\* two requests with one cache key and different outputs both missed, both
\* fetched the source (two fetches counted), both transformed and wrote the
\* file to the end; each was served its own output and the file holds the
\* output of one of them, the other's being overwritten
C18_Witness ==
  \E i, j \in DOMAIN reqs :
    /\ i # j /\ CacheKey(reqs[i]) = CacheKey(reqs[j])
    /\ CompletedMiss(reqs[i]) /\ CompletedMiss(reqs[j])
    /\ Href(reqs[i]) = Href(reqs[j]) /\ fetchCount[Href(reqs[i])] = 2
    /\ reqs[i].body = Output(reqs[i]) /\ reqs[j].body = Output(reqs[j])
    /\ Output(reqs[i]) # Output(reqs[j])
    /\ files[CacheKey(reqs[i])] = Output(reqs[j])

\* C19: in every step: the codec handle changes only from undefined to the
\* result of the first load, in the step in which a request leaves its
\* existence check with a miss (check and load are one step, with no
\* suspension between them); a request that leaves its check with a miss
\* builds its transformer from a handle that is set, and it is the handle
\* every other request uses; a handle once set is never assigned again; and
\* a request that is rejected or is a cache hit never has a handle and its
\* steps leave the handle alone.
C19_InitialisedOnce ==
  [][/\ sharp' # sharp =>
          /\ sharp = 0 /\ sharp' = 1
          /\ \E i \in DOMAIN reqs :
               reqs[i].pc = "lookup" /\ reqs'[i].pc = "fetching"
     /\ \A i \in DOMAIN reqs :
          /\ (reqs[i].pc = "lookup" /\ reqs'[i].pc = "fetching") =>
               /\ sharp' = 1 /\ reqs'[i].handle = sharp'
          /\ reqs[i].pc # "lookup" => reqs'[i].handle = reqs[i].handle
          /\ reqs'[i].pc \in {"fetching", "streaming"} => reqs'[i].handle = 1
     /\ \A i \in DOMAIN reqs' :
          (Rejected(reqs'[i]) \/ reqs'[i].hit) =>
            /\ reqs'[i].handle = 0
            /\ (i \notin DOMAIN reqs \/ reqs'[i] # reqs[i]) => sharp' = sharp]_vars

\* two requests are both waiting for their fetch, the first uses of the
\* codec in the process, and hold the one handle
C19_Witness ==
  \E i, j \in DOMAIN reqs :
    /\ i # j /\ sharp = 1
    /\ reqs[i].pc = "fetching" /\ reqs[i].handle = 1
    /\ reqs[j].pc = "fetching" /\ reqs[j].handle = 1
    /\ \A k \in DOMAIN reqs : reqs[k].pc \in {"fetching"}

\* C20: whatever the cache holds and whatever policy was in force before, a
\* request that arrives and fails a check of the handler under the policy in
\* force (url missing, repeated, unparsable or absolute with a hostname
\* outside a non-empty domain list; w missing, repeated, zero, no number or
\* outside a non-empty width list; q missing, repeated, no number or outside
\* 1..100) is answered 400 in the step of its arrival, with no body and no
\* cache hit, and that step reads no cache file and changes none; no later
\* step serves it anything.
C20_PolicyBeforeCache ==
  [][\A i \in DOMAIN reqs' :
       /\ (i \notin DOMAIN reqs /\ FailsValidation(reqs'[i])) =>
            /\ reqs'[i].statusCode = 400 /\ Rejected(reqs'[i])
            /\ reqs'[i].pc = "done" /\ reqs'[i].finished
            /\ reqs'[i].body = <<>> /\ ~reqs'[i].hit
            /\ files' = files
       /\ (i \in DOMAIN reqs /\ Rejected(reqs[i])) => reqs'[i] = reqs[i]]_vars

\* a request was served under a laxer policy and its output is in the cache;
\* after a restart with a stricter policy the same request was answered 400
\* and served nothing, the cache file still being there
C20_Witness ==
  \E i, j \in DOMAIN reqs :
    /\ i < j /\ SameTuple(reqs[i], reqs[j])
    /\ CompletedMiss(reqs[i]) /\ reqs[i].statusCode = 200
    /\ files[CacheKey(reqs[j])] = Output(reqs[i])
    /\ FailsValidation(reqs[j]) /\ reqs[j].statusCode = 400
    /\ reqs[j].msg \in {MsgUrlNotAllowed, MsgWNotAllowed(1)}
    /\ reqs[j].body = <<>> /\ ~reqs[j].hit

====
